---- MODULE Spec2Model ----
(***************************************************************************)
(* Model of the e-commerce record API of src/app.py: the four relations     *)
(* (users, products, orders, order_product), the request handlers that      *)
(* mutate them, and the store's constraints (unique email, primary key of   *)
(* the join table, foreign keys) as the handlers meet them at commit.       *)
(***************************************************************************)
EXTENDS Integers, Sequences, FiniteSets, Bags, TLC

\* ------------------------------------------------------------------ bounds
\* The number of requests served in a run of the model: of all handlers, and of
\* the user handlers with every body.
MaxRequests == 7
MaxUserRequests == 4

\* ------------------------------------------------------------ input values
\* SQL NULL / Python None in a nullable string column.
NULL == "<NULL>"
Names == {"", "Ann", "Bob"}
WellFormedEmails == {"a@x.io", "b@x.io"}
Emails == WellFormedEmails \cup {"not-an-email"}
Addresses == {NULL, "1 Elm St"}
ProductNames == {"", "Pen"}
Prices == {-1, 0}
\* order_date as it arrives in the JSON body: ISO-8601 text, or text that is not
DateInputs == {"2025-08-15T14:30:00", "next tuesday"}
\* datetime.utcnow() as read by a handler
Clock == {3}
Clients == {1, 2}

\* The ids that requests name.
UserIdArgs == {1, 2, 3}
ProductIdArgs == {1, 2, 3}
OrderIdArgs == {1, 2, 3}

\* A JSON object is a function from the keys that are present to their values.
EmptyObj == [k \in {} |-> k]
Field(k, present, v) == IF present THEN k :> v ELSE EmptyObj
Get(obj, k, default) == IF k \in DOMAIN obj THEN obj[k] ELSE default

UserPayloads ==
    { Field("name", hn, n) @@ Field("email", he, e) @@ Field("address", ha, a) :
        hn \in BOOLEAN, n \in Names, he \in BOOLEAN, e \in Emails,
        ha \in BOOLEAN, a \in Addresses }

ProductPayloads ==
    { Field("product_name", hn, n) @@ Field("price", hp, p) :
        hn \in BOOLEAN, n \in ProductNames, hp \in BOOLEAN, p \in Prices }

\* product_ids lists: none, one id, two ids in both orders, a repeated id, and a list
\* with an id that no product can have.
ProductIdLists ==
    {<<>>, <<1>>, <<1, 2>>, <<2, 1>>, <<1, 1>>, <<1, MaxRequests + 1>>}

\* The bodies of the requests that populate the users table where the
\* requests under study are those on orders and products.
SeedUserPayloads ==
    { Field("name", TRUE, "Ann") @@ Field("email", TRUE, e) : e \in WellFormedEmails }
SeedOrderPayloads ==
    { Field("user_id", TRUE, u) @@ Field("order_date", TRUE, "2025-08-15T14:30:00") :
        u \in UserIdArgs }

OrderPayloads ==
    { Field("user_id", hu, u) @@ Field("order_date", hd, d) @@ Field("product_ids", hl, l) :
        hu \in BOOLEAN, u \in UserIdArgs, hd \in BOOLEAN, d \in DateInputs,
        hl \in BOOLEAN, l \in ProductIdLists }

\* ------------------------------------------------------------------- state
VARIABLES
    users,           \* table users: id -> [name, address, email]
    products,        \* table products: id -> [product_name, price]
    orders,          \* table orders: id -> [order_date, user_id]
    order_product,   \* table order_product: bag of <<order_id, product_id>> rows
    next_user_id,    \* auto-increment counters of the three primary keys
    next_product_id,
    next_order_id,
    call,            \* the last request served: handler, path ids, JSON body
    resp,            \* the response of the last request served
    served,          \* the number of steps of requests taken
    pc,              \* concurrent create_user: where each client's request stands
    req,             \* concurrent create_user: the loaded body of each client's request
    cresp            \* concurrent create_user: each client's last response

db == <<users, products, orders, order_product>>
counters == <<next_user_id, next_product_id, next_order_id>>
conc == <<pc, req, cresp>>
vars == <<users, products, orders, order_product, next_user_id, next_product_id,
          next_order_id, call, resp, served, pc, req, cresp>>

\* ---------------------------------------------------------------- requests
\* A request: the handler it is routed to, the ids of its path (0: none), its
\* JSON body and, for create_order, the clock it reads.
Request(op, id, id2, body, utcnow) ==
    [op |-> op, id |-> id, id2 |-> id2, body |-> body, utcnow |-> utcnow]
NoRequest == Request("", 0, 0, EmptyObj, 0)

\* ---------------------------------------------------------------- responses
\* (body, status) of a handler: msg is the 'message' of the JSON body (or the
\* kind of body), ids the ids the body carries, errors the fields of a
\* marshmallow error dictionary.
Response(status, msg, ids, errors) ==
    [status |-> status, msg |-> msg, ids |-> ids, errors |-> errors]

NoResponse == Response(0, "", <<>>, {})
ValidationFailed(errors) == Response(400, "ValidationError", <<>>, errors)
Message(status, msg) == Response(status, msg, <<>>, {})
Entity(status, kind, id) == Response(status, kind, <<id>>, {})
\* An exception no handler catches: Flask answers 500.
Unhandled(exc) == Response(500, exc, <<>>, {})

\* The error kinds of the service, by the responses that carry them.
IsSuccess(r) == r.status \in {200, 201}
IsValidationError(r) == r.status = 400 /\ r.msg = "ValidationError"
IsNotFoundError(r) ==
    r.msg \in {"Invalid user id", "Invalid product id", "Invalid order id",
               "Invalid order or product id", "Product not in order",
               "Products not found"}
IsConflictError(r) ==
    r.status = 400 /\ r.msg \in {"Email already exists",
                                 "Invalid user_id or foreign key constraint failed"}

\* ------------------------------------------------------------------- store
\* users.email is UNIQUE: an INSERT or UPDATE that leaves two rows with one
\* email raises IntegrityError.
EmailTaken(tbl, email, except) ==
    \E u \in DOMAIN tbl \ except : tbl[u].email = email

\* orders.user_id REFERENCES users.id
UserFkHolds(user_id) == user_id \in DOMAIN users

\* order_product has PRIMARY KEY (order_id, product_id)
LinkExists(order_id, product_id) == BagIn(<<order_id, product_id>>, order_product)

AddRow(tbl, id, row) == [i \in DOMAIN tbl \cup {id} |-> IF i = id THEN row ELSE tbl[i]]
DropRows(tbl, ids) == [i \in DOMAIN tbl \ ids |-> tbl[i]]
DropLinks(bag, rows) == [r \in DOMAIN bag \ rows |-> bag[r]]
LinksOfOrders(bag, order_ids) == {r \in DOMAIN bag : r[1] \in order_ids}
LinksOfProduct(bag, product_id) == {r \in DOMAIN bag : r[2] = product_id}

Init ==
    /\ users = EmptyObj
    /\ products = EmptyObj
    /\ orders = EmptyObj
    /\ order_product = EmptyBag
    /\ next_user_id = 1
    /\ next_product_id = 1
    /\ next_order_id = 1
    /\ call = NoRequest
    /\ resp = NoResponse
    /\ served = 0
    /\ pc = [c \in Clients |-> "idle"]
    /\ req = [c \in Clients |-> EmptyObj]
    /\ cresp = [c \in Clients |-> NoResponse]

\* ------------------------------------------------------------------ schemas
\* UserSchema.load: the fields in error.  name: required, Length(min=1);
\* email: required, Email; address: optional, None allowed.  With partial=True
\* a missing required field is no error.
UserSchemaErrors(data, partial) ==
    {k \in {"name", "email"} : k \notin DOMAIN data /\ ~partial}
    \cup {k \in {"name"} \cap DOMAIN data : data[k] = ""}
    \cup {k \in {"email"} \cap DOMAIN data : data[k] \notin WellFormedEmails}

\* ProductSchema.load: product_name required, Length(min=1); price required,
\* validate_price rejects a negative value.
ProductSchemaErrors(data) ==
    {k \in {"product_name", "price"} : k \notin DOMAIN data}
    \cup {k \in {"product_name"} \cap DOMAIN data : data[k] = ""}
    \cup {k \in {"price"} \cap DOMAIN data : data[k] < 0}

\* fields.DateTime deserialization of ISO-8601 text: the timestamp, 0 when the
\* text does not parse.
ParseDateTime(text) ==
    CASE text = "2025-08-15T14:30:00" -> 1
      [] OTHER -> 0

\* OrderSchema.load of the whole request body.  The schema's fields are the
\* columns of Order (id, order_date, user_id; include_fk): user_id is required
\* (NOT NULL, no default), order_date is declared required, and a key that is
\* no field of the schema (product_ids) is an unknown field, which load rejects.
OrderSchemaFields == {"id", "order_date", "user_id"}
OrderSchemaErrors(payload) ==
    {k \in {"user_id", "order_date"} : k \notin DOMAIN payload}
    \cup {k \in {"order_date"} \cap DOMAIN payload : ParseDateTime(payload[k]) = 0}
    \cup (DOMAIN payload \ OrderSchemaFields)

\* The loaded data: order_date deserialized to a timestamp.
OrderSchemaLoad(payload) ==
    [k \in DOMAIN payload |->
        IF k = "order_date" THEN ParseDateTime(payload[k]) ELSE payload[k]]

\* ---------------------------------------------------------------- handlers
\* create_user without its pre-check of the email.
existing_unchecked(email) == FALSE

\* The application-level pre-check of create_user: a user with this email.
existing(email) == EmailTaken(users, email, {})

\* The pre-check of update_user, run when the body's email differs from the row's.
exists(email) == EmailTaken(users, email, {})

\* POST /users
create_user(data) ==
    LET errors == UserSchemaErrors(data, FALSE) IN
    /\ served' = served + 1
    /\ call' = Request("create_user", 0, 0, data, 0)
    /\ IF errors # {}
       THEN /\ resp' = ValidationFailed(errors)
            /\ UNCHANGED <<db, counters>>
       ELSE IF existing(data["email"])
       THEN /\ resp' = Message(400, "Email already exists")
            /\ UNCHANGED <<db, counters>>
       ELSE IF EmailTaken(users, data["email"], {})
       THEN \* the INSERT breaks the unique index: IntegrityError, not caught
            /\ resp' = Unhandled("IntegrityError")
            /\ UNCHANGED <<db, counters>>
       ELSE /\ users' = AddRow(users, next_user_id,
                               [name |-> data["name"], email |-> data["email"],
                                address |-> Get(data, "address", NULL)])
            /\ next_user_id' = next_user_id + 1
            /\ resp' = Entity(201, "user", next_user_id)
            /\ UNCHANGED <<products, orders, order_product, next_product_id, next_order_id>>
    /\ UNCHANGED conc

\* update_user overwriting the whole row with the body.
MergeUser_overwrite(user, payload) ==
    [name |-> Get(payload, "name", NULL),
     email |-> Get(payload, "email", NULL),
     address |-> Get(payload, "address", NULL)]

\* PUT /users/<user_id>: the fields of the body merged onto the row.
MergeUser(user, payload) ==
    [name |-> Get(payload, "name", user.name),
     email |-> Get(payload, "email", user.email),
     address |-> Get(payload, "address", user.address)]

update_user(user_id, payload) ==
    LET errors == UserSchemaErrors(payload, TRUE) IN
    /\ served' = served + 1
    /\ call' = Request("update_user", user_id, 0, payload, 0)
    /\ IF user_id \notin DOMAIN users
       THEN /\ resp' = Message(400, "Invalid user id")
            /\ UNCHANGED users
       ELSE IF errors # {}
       THEN /\ resp' = ValidationFailed(errors)
            /\ UNCHANGED users
       ELSE IF /\ "email" \in DOMAIN payload
               /\ payload["email"] # users[user_id].email
               /\ exists(payload["email"])
       THEN /\ resp' = Message(400, "Email already exists")
            /\ UNCHANGED users
       ELSE LET merged == MergeUser(users[user_id], payload) IN
            IF EmailTaken(users, merged.email, {user_id})
            THEN \* the UPDATE breaks the unique index: IntegrityError, not caught
                 /\ resp' = Unhandled("IntegrityError")
                 /\ UNCHANGED users
            ELSE /\ users' = [users EXCEPT ![user_id] = merged]
                 /\ resp' = Entity(200, "user", user_id)
    /\ UNCHANGED <<products, orders, order_product, counters, conc>>

\* DELETE /users/<user_id>: cascade='all, delete-orphan' deletes the user's
\* orders, and deleting an order deletes its rows of the secondary table.
OrdersOf(user_id) == {o \in DOMAIN orders : orders[o].user_id = user_id}
\* The orders relationship without its delete cascade.
CascadedOrders_none(user_id) == {}

CascadedOrders(user_id) == OrdersOf(user_id)

delete_user(user_id) ==
    /\ served' = served + 1
    /\ call' = Request("delete_user", user_id, 0, EmptyObj, 0)
    /\ IF user_id \notin DOMAIN users
       THEN /\ resp' = Message(400, "Invalid user id")
            /\ UNCHANGED <<users, orders, order_product>>
       ELSE LET owned == CascadedOrders(user_id) IN
            /\ order_product' = DropLinks(order_product, LinksOfOrders(order_product, owned))
            /\ orders' = DropRows(orders, owned)
            /\ users' = DropRows(users, {user_id})
            /\ resp' = Message(200, "successfully deleted user")
    /\ UNCHANGED <<products, counters, conc>>

\* POST /products
create_product(data) ==
    LET errors == ProductSchemaErrors(data) IN
    /\ served' = served + 1
    /\ call' = Request("create_product", 0, 0, data, 0)
    /\ IF errors # {}
       THEN /\ resp' = ValidationFailed(errors)
            /\ UNCHANGED <<products, next_product_id>>
       ELSE /\ products' = AddRow(products, next_product_id,
                                  [product_name |-> data["product_name"],
                                   price |-> data["price"]])
            /\ next_product_id' = next_product_id + 1
            /\ resp' = Entity(201, "product", next_product_id)
    /\ UNCHANGED <<users, orders, order_product, next_user_id, next_order_id, conc>>

\* DELETE /products/<product_id>: deleting a product deletes its rows of the
\* secondary table.
delete_product(product_id) ==
    /\ served' = served + 1
    /\ call' = Request("delete_product", product_id, 0, EmptyObj, 0)
    /\ IF product_id \notin DOMAIN products
       THEN /\ resp' = Message(400, "Invalid product id")
            /\ UNCHANGED <<products, order_product>>
       ELSE /\ order_product' = DropLinks(order_product, LinksOfProduct(order_product, product_id))
            /\ products' = DropRows(products, {product_id})
            /\ resp' = Message(200, "successfully deleted product")
    /\ UNCHANGED <<users, orders, counters, conc>>

\* The elements of a list, and the list without the elements that fail a test.
Range(seq) == {seq[i] : i \in DOMAIN seq}
Missing(product_ids, found_ids) ==
    SelectSeq(product_ids, LAMBDA pid : pid \notin found_ids)

\* POST /orders.  utcnow is the clock read for the default of order_date; the
\* loaded order_date is a timestamp, never text, so the handler's own parse of
\* a text order_date is not entered.
create_order(payload, utcnow) ==
    LET errors == OrderSchemaErrors(payload)
        data == OrderSchemaLoad(payload)
        order_date_val == Get(data, "order_date", 0)
        order_date == IF order_date_val # 0 THEN order_date_val ELSE utcnow
        product_ids == Get(payload, "product_ids", <<>>)
        found_ids == Range(product_ids) \cap DOMAIN products
        missing == Missing(product_ids, found_ids)
    IN
    /\ served' = served + 1
    /\ call' = Request("create_order", 0, 0, payload, utcnow)
    /\ IF errors # {}
       THEN /\ resp' = ValidationFailed(errors)
            /\ UNCHANGED <<orders, order_product, next_order_id>>
       ELSE IF missing # <<>>
       THEN /\ resp' = Response(404, "Products not found", missing, {})
            /\ UNCHANGED <<orders, order_product, next_order_id>>
       ELSE IF ~UserFkHolds(data["user_id"])
       THEN \* IntegrityError at commit, caught: rollback
            /\ resp' = Message(400, "Invalid user_id or foreign key constraint failed")
            /\ UNCHANGED <<orders, order_product, next_order_id>>
       ELSE /\ orders' = AddRow(orders, next_order_id,
                                [order_date |-> order_date, user_id |-> data["user_id"]])
            /\ order_product' = order_product (+)
                                SetToBag({<<next_order_id, p>> : p \in found_ids})
            /\ next_order_id' = next_order_id + 1
            /\ resp' = Entity(201, "order", next_order_id)
    /\ UNCHANGED <<users, products, next_user_id, next_product_id, conc>>

\* The handlers without their test of the link.
ProductInOrder_never(order_id, product_id) == FALSE

\* product in order.products
ProductInOrder(order_id, product_id) == LinkExists(order_id, product_id)

\* A removal that empties the order's products.
RemoveLink_all(bag, order_id, product_id) ==
    DropLinks(bag, LinksOfOrders(bag, {order_id}))

\* order.products.remove(product): DELETE of the rows of this pair.
RemoveLink(bag, order_id, product_id) ==
    DropLinks(bag, {<<order_id, product_id>>})

\* PUT /orders/<order_id>/add_product/<product_id>
add_product_to_order(order_id, product_id) ==
    /\ served' = served + 1
    /\ call' = Request("add_product_to_order", order_id, product_id, EmptyObj, 0)
    /\ IF order_id \notin DOMAIN orders \/ product_id \notin DOMAIN products
       THEN /\ resp' = Message(400, "Invalid order or product id")
            /\ UNCHANGED order_product
       ELSE IF ProductInOrder(order_id, product_id)
       THEN /\ resp' = Message(200, "Product already in order")
            /\ UNCHANGED order_product
       ELSE IF LinkExists(order_id, product_id)
       THEN \* the INSERT breaks the primary key: IntegrityError, not caught
            /\ resp' = Unhandled("IntegrityError")
            /\ UNCHANGED order_product
       ELSE /\ order_product' = order_product (+) SetToBag({<<order_id, product_id>>})
            /\ resp' = Entity(200, "order", order_id)
    /\ UNCHANGED <<users, products, orders, counters, conc>>

\* DELETE /orders/<order_id>/remove_product/<product_id>
remove_product_from_order(order_id, product_id) ==
    /\ served' = served + 1
    /\ call' = Request("remove_product_from_order", order_id, product_id, EmptyObj, 0)
    /\ IF order_id \notin DOMAIN orders \/ product_id \notin DOMAIN products
       THEN /\ resp' = Message(400, "Invalid order or product id")
            /\ UNCHANGED order_product
       ELSE IF ~ProductInOrder(order_id, product_id)
       THEN /\ resp' = Message(404, "Product not in order")
            /\ UNCHANGED order_product
       ELSE /\ order_product' = RemoveLink(order_product, order_id, product_id)
            /\ resp' = Entity(200, "order", order_id)
    /\ UNCHANGED <<users, products, orders, counters, conc>>

\* GET /orders/user/<user_id>, read from a state of the orders table: the rows
\* the query selects (ORDER BY order_date DESC arranges them and selects no
\* other).
get_orders_for_user(tbl_orders, user_id) ==
    {o \in DOMAIN tbl_orders : tbl_orders[o].user_id = user_id}

\* GET /orders/<order_id>/products, read from a state of the orders and
\* order_product tables: status, message and the bag of the ids of
\* order.products.
get_products_for_order(tbl_orders, tbl_links, order_id) ==
    IF order_id \notin DOMAIN tbl_orders
    THEN [status |-> 400, msg |-> "Invalid order id", products |-> EmptyBag]
    ELSE [status |-> 200, msg |-> "products",
          products |-> LET rows == {r \in DOMAIN tbl_links : r[1] = order_id}
                       IN  [p \in {r[2] : r \in rows} |-> tbl_links[<<order_id, p>>]]]

\* Every handler that writes, the user bodies drawn from the seed set.
Next ==
    \/ \E data \in SeedUserPayloads :
          served < MaxRequests /\ create_user(data)
    \/ \E user_id \in UserIdArgs :
          served < MaxRequests /\ delete_user(user_id)
    \/ \E data \in ProductPayloads :
          served < MaxRequests /\ create_product(data)
    \/ \E product_id \in ProductIdArgs :
          served < MaxRequests /\ delete_product(product_id)
    \/ \E payload \in OrderPayloads, utcnow \in Clock :
          served < MaxRequests /\ create_order(payload, utcnow)
    \/ \E order_id \in OrderIdArgs, product_id \in ProductIdArgs :
          served < MaxRequests /\ add_product_to_order(order_id, product_id)
    \/ \E order_id \in OrderIdArgs, product_id \in ProductIdArgs :
          served < MaxRequests /\ remove_product_from_order(order_id, product_id)

Spec == Init /\ [][Next]_vars

\* The user handlers with every body, over users that own orders.
NextUsers ==
    \/ \E data \in UserPayloads :
          served < MaxUserRequests /\ create_user(data)
    \/ \E user_id \in UserIdArgs, payload \in UserPayloads :
          served < MaxUserRequests /\ update_user(user_id, payload)
    \/ \E user_id \in UserIdArgs :
          served < MaxUserRequests /\ delete_user(user_id)
    \/ \E payload \in SeedOrderPayloads, utcnow \in Clock :
          served < MaxUserRequests /\ create_order(payload, utcnow)

SpecUsers == Init /\ [][NextUsers]_vars

\* ------------------------------------------------- concurrent create_user
\* Two requests to POST /users, each in its own session and transaction.  A
\* request is served in two steps of the store: the SELECT of the pre-check,
\* then the INSERT and COMMIT, and the other request may run between them.
ConcUserPayloads ==
    SeedUserPayloads \cup
    { Field("name", TRUE, "Bob") @@ Field("email", TRUE, "not-an-email") }

InFlight == {c \in Clients : pc[c] = "commit"}

\* load, and the pre-check
create_user_check(c, data) ==
    LET errors == UserSchemaErrors(data, FALSE) IN
    /\ served' = served + 1
    /\ pc[c] = "idle"
    /\ req' = [req EXCEPT ![c] = data]
    /\ IF errors # {}
       THEN /\ cresp' = [cresp EXCEPT ![c] = ValidationFailed(errors)]
            /\ UNCHANGED pc
       ELSE IF existing(data["email"])
       THEN /\ cresp' = [cresp EXCEPT ![c] = Message(400, "Email already exists")]
            /\ UNCHANGED pc
       ELSE /\ cresp' = [cresp EXCEPT ![c] = NoResponse]
            /\ pc' = [pc EXCEPT ![c] = "commit"]
    /\ UNCHANGED <<db, counters, call, resp>>

\* db.session.add(user); db.session.commit(): no except clause around it
create_user_commit(c) ==
    /\ served' = served + 1
    /\ pc[c] = "commit"
    /\ pc' = [pc EXCEPT ![c] = "idle"]
    /\ IF EmailTaken(users, req[c]["email"], {})
       THEN \* IntegrityError leaves the handler; the session is rolled back
            /\ cresp' = [cresp EXCEPT ![c] = Unhandled("IntegrityError")]
            /\ UNCHANGED <<users, next_user_id>>
       ELSE /\ users' = AddRow(users, next_user_id,
                               [name |-> req[c]["name"], email |-> req[c]["email"],
                                address |-> Get(req[c], "address", NULL)])
            /\ next_user_id' = next_user_id + 1
            /\ cresp' = [cresp EXCEPT ![c] = Entity(201, "user", next_user_id)]
    /\ UNCHANGED <<products, orders, order_product, next_product_id, next_order_id,
                   call, resp, req>>

NextConc ==
    \/ \E c \in Clients, data \in ConcUserPayloads :
          served < MaxRequests /\ create_user_check(c, data)
    \/ \E c \in Clients :
          served < MaxRequests /\ create_user_commit(c)

SpecConc == Init /\ [][NextConc]_vars

\* ------------------------------------------------------------------ claims
UniqueEmails ==
    \A u \in DOMAIN users, v \in DOMAIN users : users[u].email = users[v].email => u = v

ReferentialIntegrity ==
    /\ \A o \in DOMAIN orders : orders[o].user_id \in DOMAIN users
    /\ \A r \in DOMAIN order_product : r[1] \in DOMAIN orders /\ r[2] \in DOMAIN products

NoDuplicateLinks == \A r \in DOMAIN order_product : order_product[r] = 1

\* C1, one step: create_user with a valid body whose email an existing user
\* holds, and update_user with a valid body whose email a different user holds,
\* answer ConflictError and change no table; update_user to the row's own email
\* succeeds.
C1_Step ==
    LET body == call'.body IN
    /\ ( /\ call'.op = "create_user"
         /\ UserSchemaErrors(body, FALSE) = {}
         /\ EmailTaken(users, body["email"], {}) )
       => IsConflictError(resp') /\ UNCHANGED <<db, counters>>
    /\ ( /\ call'.op = "update_user"
         /\ call'.id \in DOMAIN users
         /\ UserSchemaErrors(body, TRUE) = {}
         /\ "email" \in DOMAIN body )
       => IF EmailTaken(users, body["email"], {call'.id})
          THEN IsConflictError(resp') /\ UNCHANGED <<db, counters>>
          ELSE IsSuccess(resp') /\ users'[call'.id].email = body["email"]

\* C1: after any sequence of create_user, update_user and delete_user no two
\* users have the same email; a create or an update that would give a second
\* user an email in use fails with ConflictError and changes nothing, and an
\* update of a user to its own email succeeds.
C1_EmailUnique == [](UniqueEmails) /\ [][C1_Step]_vars

\* A create_user refused for an email that the other of two users holds.
C1_Witness ==
    /\ call.op = "create_user"
    /\ UserSchemaErrors(call.body, FALSE) = {}
    /\ resp = Message(400, "Email already exists")
    /\ Cardinality(DOMAIN users) = 2
    /\ \E u \in DOMAIN users : users[u].email = call.body["email"]

\* C2: every create_user request with a valid body that ran concurrently with
\* another ends in success or ConflictError, a success leaves its user in the
\* table, and no two users have one email.
C2_ConcurrentCreate ==
    /\ UniqueEmails
    /\ \A c \in Clients :
          (pc[c] = "idle" /\ cresp[c] # NoResponse /\ UserSchemaErrors(req[c], FALSE) = {})
          => \/ IsConflictError(cresp[c])
             \/ /\ IsSuccess(cresp[c])
                /\ cresp[c].ids[1] \in DOMAIN users
                /\ users[cresp[c].ids[1]].email = req[c]["email"]

\* C3: create_order whose product_ids names an id of no product (the rest of
\* the body valid) answers NotFoundError listing exactly the missing ids, and
\* changes no table.
ValidOrderFields(body) ==
    /\ "user_id" \in DOMAIN body
    /\ "order_date" \in DOMAIN body
    /\ ParseDateTime(body["order_date"]) # 0

C3_MissingProductsRejected ==
    [][ ( /\ call'.op = "create_order"
          /\ ValidOrderFields(call'.body)
          /\ "product_ids" \in DOMAIN call'.body
          /\ Range(call'.body["product_ids"]) \ DOMAIN products # {} )
        => /\ IsNotFoundError(resp')
           /\ Range(resp'.ids) = Range(call'.body["product_ids"]) \ DOMAIN products
           /\ UNCHANGED <<db, counters>> ]_vars

\* C4, one step: delete_user of an existing user removes each of its orders and
\* their join rows: each order id is then reported not found and the user's
\* list of orders is empty.
C4_Step ==
    (call'.op = "delete_user" /\ call'.id \in DOMAIN users)
    => /\ IsSuccess(resp')
       /\ call'.id \notin DOMAIN users'
       /\ get_orders_for_user(orders', call'.id) = {}
       /\ \A o \in OrdersOf(call'.id) :
             /\ IsNotFoundError(get_products_for_order(orders', order_product', o))
             /\ \A r \in DOMAIN order_product' : r[1] # o

\* C4: in every state reachable by the handlers every order's user_id is the
\* id of an existing user and every join row names an existing order and an
\* existing product; delete_user removes the user's orders and their join rows.
C4_ReferentialIntegrity == [](ReferentialIntegrity) /\ [][C4_Step]_vars

\* The one user there was has been deleted, and with it its two orders, while
\* the products they could link to remain.
C4_Witness ==
    /\ call.op = "delete_user"
    /\ IsSuccess(resp)
    /\ next_user_id = 2
    /\ next_order_id = 3
    /\ orders = EmptyObj
    /\ order_product = EmptyBag
    /\ DOMAIN products # {}

\* C5, one step: add_product_to_order on an existing link succeeds and changes
\* no table; after any successful add the order lists the product exactly once.
C5_Step ==
    LET o == call'.id
        p == call'.id2
    IN  (call'.op = "add_product_to_order" /\ o \in DOMAIN orders /\ p \in DOMAIN products)
        => /\ IsSuccess(resp')
           /\ LinkExists(o, p) => UNCHANGED <<db, counters>>
           /\ CopiesIn(p, get_products_for_order(orders', order_product', o).products) = 1

\* C5: add_product_to_order is idempotent, and no state has two join rows with
\* one (order_id, product_id).
C5_AddIdempotent == [](NoDuplicateLinks) /\ [][C5_Step]_vars

\* The second add of a link has been answered.
C5_Witness ==
    /\ call.op = "add_product_to_order"
    /\ resp = Message(200, "Product already in order")
    /\ order_product[<<call.id, call.id2>>] = 1

\* C6: remove_product_from_order answers NotFoundError and changes no table
\* when the order, the product or the link does not exist; when the link exists
\* it removes that join row and nothing else.
C6_RemoveLink ==
    [][ LET o == call'.id
            p == call'.id2
        IN  call'.op = "remove_product_from_order"
            => IF o \in DOMAIN orders /\ p \in DOMAIN products /\ LinkExists(o, p)
               THEN /\ IsSuccess(resp')
                    /\ DOMAIN order_product' = DOMAIN order_product \ {<<o, p>>}
                    /\ \A r \in DOMAIN order_product' : order_product'[r] = order_product[r]
                    /\ UNCHANGED <<users, products, orders, counters>>
               ELSE /\ IsNotFoundError(resp')
                    /\ UNCHANGED <<db, counters>> ]_vars

\* A removal of a link that does not exist, between an order and a product that
\* do, refused while the order holds another link.
C6_Witness ==
    /\ call.op = "remove_product_from_order"
    /\ resp = Message(404, "Product not in order")
    /\ call.id \in DOMAIN orders
    /\ call.id2 \in DOMAIN products
    /\ \E r \in DOMAIN order_product : r[1] = call.id

\* C7: create_order for a user_id of no user (the rest of the body valid, the
\* product_ids, if any, all existing) answers ConflictError and leaves no order
\* and no join row.
C7_UnknownUserRejected ==
    [][ ( /\ call'.op = "create_order"
          /\ ValidOrderFields(call'.body)
          /\ call'.body["user_id"] \notin DOMAIN users
          /\ Range(Get(call'.body, "product_ids", <<>>)) \subseteq DOMAIN products )
        => /\ IsConflictError(resp')
           /\ UNCHANGED <<db, counters>> ]_vars

\* C8: create_order with a valid user_id and no order_date succeeds and the new
\* order's order_date is the time of creation.
C8_OrderDateDefaults ==
    [][ ( /\ call'.op = "create_order"
          /\ DOMAIN call'.body = {"user_id"}
          /\ call'.body["user_id"] \in DOMAIN users )
        => /\ resp' = Entity(201, "order", next_order_id)
           /\ next_order_id \in DOMAIN orders'
           /\ orders'[next_order_id].order_date = call'.utcnow ]_vars

\* C9: update_user of an existing user with a valid body that takes no other
\* user's email succeeds, sets exactly the fields of the body and leaves the
\* user's other fields, its id, its orders and every other row unchanged; an
\* update_user that fails changes nothing.
UserFields == {"name", "email", "address"}

C9_PartialUpdate ==
    [][ LET id == call'.id
            body == call'.body
        IN  call'.op = "update_user"
            => IF /\ id \in DOMAIN users
                  /\ UserSchemaErrors(body, TRUE) = {}
                  /\ ~("email" \in DOMAIN body /\ EmailTaken(users, body["email"], {id}))
               THEN /\ IsSuccess(resp')
                    /\ DOMAIN users' = DOMAIN users
                    /\ \A k \in UserFields :
                          users'[id][k] = IF k \in DOMAIN body THEN body[k] ELSE users[id][k]
                    /\ \A u \in DOMAIN users \ {id} : users'[u] = users[u]
                    /\ UNCHANGED <<products, orders, order_product, counters>>
               ELSE /\ ~IsSuccess(resp')
                    /\ UNCHANGED <<db, counters>> ]_vars

\* An update with only an address has succeeded on a user that owns an order,
\* beside another user.
C9_Witness ==
    /\ call.op = "update_user"
    /\ DOMAIN call.body = {"address"}
    /\ IsSuccess(resp)
    /\ users[call.id].address = call.body["address"]
    /\ OrdersOf(call.id) # {}
    /\ Cardinality(DOMAIN users) = 2

\* C10: create_order with a valid body whose product_ids are all existing
\* products succeeds, and the products of the new order are exactly the
\* products named, each once, whatever the order and the repetitions of the ids.
C10_ProductsRoundTrip ==
    [][ ( /\ call'.op = "create_order"
          /\ ValidOrderFields(call'.body)
          /\ call'.body["user_id"] \in DOMAIN users
          /\ "product_ids" \in DOMAIN call'.body
          /\ call'.body["product_ids"] # <<>>
          /\ Range(call'.body["product_ids"]) \subseteq DOMAIN products )
        => /\ IsSuccess(resp')
           /\ get_products_for_order(orders', order_product', next_order_id).products
                = SetToBag(Range(call'.body["product_ids"])) ]_vars
====
